---- MODULE Spec2Model ----
(***************************************************************************)
(* Model of the oracle-core decision core:                                 *)
(*   - serde.rs        configuration validators and their inverse          *)
(*   - state.rs        process(pool_state, height)                         *)
(*   - explorer_api.rs wait_for_txs_confirmation                           *)
(* The pure functions are operators; each is applied by an action of a     *)
(* specification whose Init draws the inputs from bounded sets.            *)
(***************************************************************************)
EXTENDS Integers, Sequences, FiniteSets, TLC

VARIABLES
    cfg_pc,        \* "idle" | "input" | "validated" | "serialized" | "revalidated"
    cfg_kind,      \* "oracle" | "bootstrap" | "update" | "none"
    cfg_in,        \* the serialized configuration handed to try_from
    cfg_prefix,    \* NetworkPrefix argument (existing pool prefix / re-serialization prefix)
    cfg_out,       \* Result of the first try_from
    cfg_ser,       \* the re-serialized configuration
    cfg_out2,      \* Result of try_from on the re-serialized configuration
    st_pc,         \* "idle" | "call" | "returned"
    pool_state,    \* PoolState argument of process
    height,        \* u32 argument of process
    cfg_epoch_length, \* ORACLE_CONFIG ... epoch_length() before the cast
    st_result,     \* what process returned (or that it panicked)
    w_pc,          \* "idle" | "loop" | "sweep" | "check" | "done" | "aborted"
    tx_ids,        \* its argument
    remaining_txs, \* its pending vector
    sweep_txs,     \* remaining_txs.clone() being iterated
    sweep_i,       \* index of the next element of sweep_txs
    elapsed,       \* start_time.elapsed() in seconds
    last_lookup,   \* the last lookup issued and its outcome
    slept,         \* whether the call has slept since it began
    failed         \* the identifiers whose lookup failed in the sweep in progress or just ended

cfg_vars == <<cfg_pc, cfg_kind, cfg_in, cfg_prefix, cfg_out, cfg_ser, cfg_out2>>
st_vars == <<st_pc, pool_state, height, cfg_epoch_length, st_result>>
w_vars == <<w_pc, tx_ids, remaining_txs, sweep_txs, sweep_i, elapsed, last_lookup, slept,
           failed>>
vars == <<cfg_vars, st_vars, w_vars>>

Nothing == [none |-> TRUE]

(***************************************************************************)
(* AddressNetworkCodec (ergo-lib AddressEncoder as serde.rs uses it).      *)
(* An address string is the byte string <<head, body, checksum>> that its  *)
(* base58 text stands for: head = network prefix byte + address type, the  *)
(* checksum is computed over head and body.                                *)
(***************************************************************************)
NetworkPrefix == {"Mainnet", "Testnet"}

PrefixByte(p) == IF p = "Mainnet" THEN 0 ELSE 16

Checksum(head, body) == (head * 31 + body * 7 + 5) % 256

\* An Address: [tpe |-> 1 (P2Pk) | 2 (P2SH) | 3 (P2S), body |-> content]
AddressToStr(prefix, a) ==
    LET head == PrefixByte(prefix) + a.tpe
    IN  <<head, a.body, Checksum(head, a.body)>>

AddrErr(reason) == [ok |-> FALSE, err |-> "AddressEncoder", reason |-> reason]

\* AddressEncoder::try_parse_address: checksum, then the address type nibble
TryParseAddress(bytes) ==
    IF bytes[3] # Checksum(bytes[1], bytes[2]) THEN AddrErr("InvalidChecksum")
    ELSE IF (bytes[1] % 16) \notin {1, 2, 3} THEN AddrErr("InvalidAddressType")
    ELSE [ok |-> TRUE, address |-> [tpe |-> bytes[1] % 16, body |-> bytes[2]]]

\* AddressEncoder::unchecked_parse_network_address_from_str: the network is
\* read from the head byte and is not compared with anything
UncheckedParseNetworkAddress(s) ==
    IF Len(s) < 3 THEN AddrErr("InvalidSize")
    ELSE LET hi == s[1] - (s[1] % 16)
         IN  IF hi \notin {0, 16} THEN AddrErr("InvalidNetwork")
             ELSE LET r == TryParseAddress(s)
                  IN  IF ~r.ok THEN r
                      ELSE [ok |-> TRUE,
                            network |-> IF hi = 0 THEN "Mainnet" ELSE "Testnet",
                            address |-> r.address]

\* AddressEncoder::new(prefix).parse_address_from_str: the head byte has to
\* belong to the encoder's network (check_head_byte), else InvalidNetwork
ParseAddressFromStr(prefix, s) ==
    IF Len(s) < 3 THEN AddrErr("InvalidSize")
    ELSE IF prefix = "Mainnet" /\ ~(s[1] < 16) THEN AddrErr("InvalidNetwork")
    ELSE IF prefix = "Testnet" /\ ~(s[1] > 16) THEN AddrErr("InvalidNetwork")
    ELSE TryParseAddress(s)

(***************************************************************************)
(* serde.rs: contract parameter sets.  Each set holds its p2s and integer  *)
(* fields that both directions copy; the integer fields are kept in the    *)
(* record and carried by EXCEPT.                                           *)
(***************************************************************************)
\* what `?` does with the error of a parameter set or of the addresses:
\* #[derive(From)] wraps AddressEncoderError in SerdeConversionError::AddressEncoder
SerdeConversionError(e) == [ok |-> FALSE, err |-> "AddressEncoder", reason |-> e.reason]

NetworkPrefixesDiffer == [ok |-> FALSE, err |-> "NetworkPrefixesDiffer"]

\* the body shared by the five TryFrom<...ParametersSerde> for (...Parameters, NetworkPrefix)
ParametersTryFrom(contract) ==
    LET a == UncheckedParseNetworkAddress(contract.p2s)
    IN  IF ~a.ok THEN a
        ELSE [ok |-> TRUE, val |-> [contract EXCEPT !.p2s = a.address], network |-> a.network]

OracleContractParametersTryFrom(contract) == ParametersTryFrom(contract)

PoolContractParametersTryFrom(contract) == ParametersTryFrom(contract)

RefreshContractParametersTryFrom(contract) == ParametersTryFrom(contract)

BallotContractParametersTryFrom(contract) == ParametersTryFrom(contract)

UpdateContractParametersTryFrom(contract) == ParametersTryFrom(contract)

\* the five From<...Parameters> for ...ParametersSerde: p2s is encoded with
\* AddressEncoder::new(NetworkPrefix::Mainnet), whatever prefix the caller holds
OracleContractParametersSerdeFrom(p) == [p EXCEPT !.p2s = AddressToStr("Mainnet", p.p2s)]

PoolContractParametersSerdeFrom(p) == [p EXCEPT !.p2s = AddressToStr("Mainnet", p.p2s)]

RefreshContractParametersSerdeFrom(p) == [p EXCEPT !.p2s = AddressToStr("Mainnet", p.p2s)]

BallotContractParametersSerdeFrom(c) == [c EXCEPT !.p2s = AddressToStr("Mainnet", c.p2s)]

UpdateContractParametersSerdeFrom(p) == [p EXCEPT !.p2s = AddressToStr("Mainnet", p.p2s)]

\* impl From<(Addresses, NetworkPrefix)> for AddressesSerde
AddressesSerdeFrom(addresses, prefix) ==
    [address_for_oracle_tokens |-> AddressToStr(prefix, addresses.address_for_oracle_tokens),
     wallet_address_for_chain_transaction |->
         AddressToStr(prefix, addresses.wallet_address_for_chain_transaction)]

\* AddressesWithPrefix::try_from with the wallet address parsed without the
\* encoder's network check
AddressesWithPrefixTryFrom_UncheckedWallet(addresses) ==
    LET oracle_token_network_addr ==
            UncheckedParseNetworkAddress(addresses.address_for_oracle_tokens)
    IN  IF ~oracle_token_network_addr.ok THEN oracle_token_network_addr
        ELSE LET wallet == UncheckedParseNetworkAddress(
                               addresses.wallet_address_for_chain_transaction)
             IN  IF ~wallet.ok THEN wallet
                 ELSE [ok |-> TRUE,
                       addresses |->
                           [address_for_oracle_tokens |-> oracle_token_network_addr.address,
                            wallet_address_for_chain_transaction |-> wallet.address],
                       prefix |-> oracle_token_network_addr.network]

\* impl TryFrom<AddressesSerde> for AddressesWithPrefix
AddressesWithPrefixTryFrom(addresses) ==
    LET oracle_token_network_addr ==
            UncheckedParseNetworkAddress(addresses.address_for_oracle_tokens)
    IN  IF ~oracle_token_network_addr.ok THEN oracle_token_network_addr
        ELSE LET prefix == oracle_token_network_addr.network
                 wallet == ParseAddressFromStr(prefix,
                               addresses.wallet_address_for_chain_transaction)
             IN  IF ~wallet.ok THEN wallet
                 ELSE [ok |-> TRUE,
                       addresses |->
                           [address_for_oracle_tokens |-> oracle_token_network_addr.address,
                            wallet_address_for_chain_transaction |-> wallet.address],
                       prefix |-> prefix]

(***************************************************************************)
(* serde.rs: OracleConfig                                                  *)
(***************************************************************************)
\* impl From<(OracleConfig, NetworkPrefix)> for OracleConfigSerde
OracleConfigSerdeFrom(c, network_prefix) ==
    [node_port |-> c.node_port,
     oracle_address |-> c.oracle_address,
     oracle_contract_parameters |->
         OracleContractParametersSerdeFrom(c.oracle_contract_parameters),
     pool_contract_parameters |-> PoolContractParametersSerdeFrom(c.pool_contract_parameters),
     refresh_contract_parameters |->
         RefreshContractParametersSerdeFrom(c.refresh_contract_parameters),
     update_contract_parameters |->
         UpdateContractParametersSerdeFrom(c.update_contract_parameters),
     ballot_parameters |->
         [contract_parameters |->
              BallotContractParametersSerdeFrom(c.ballot_parameters.contract_parameters),
          vote_parameters |-> c.ballot_parameters.vote_parameters,
          ballot_token_owner_address |->
              AddressToStr(network_prefix, c.ballot_parameters.ballot_token_owner_address)],
     token_ids |-> c.token_ids,
     addresses |-> AddressesSerdeFrom(c.addresses, network_prefix)]

\* OracleConfig::try_from decoding oracle_address and holding it to the agreed prefix
OracleConfigTryFrom_OracleAddressChecked(c) ==
    LET oracle == OracleContractParametersTryFrom(c.oracle_contract_parameters)
        pool == PoolContractParametersTryFrom(c.pool_contract_parameters)
        refresh == RefreshContractParametersTryFrom(c.refresh_contract_parameters)
        update == UpdateContractParametersTryFrom(c.update_contract_parameters)
        owner == UncheckedParseNetworkAddress(c.ballot_parameters.ballot_token_owner_address)
        ballot == BallotContractParametersTryFrom(c.ballot_parameters.contract_parameters)
        addresses_with_prefix == AddressesWithPrefixTryFrom(c.addresses)
        oracle_address == UncheckedParseNetworkAddress(c.oracle_address)
    IN  IF ~oracle.ok THEN SerdeConversionError(oracle)
        ELSE IF ~pool.ok THEN SerdeConversionError(pool)
        ELSE IF ~refresh.ok THEN SerdeConversionError(refresh)
        ELSE IF ~update.ok THEN SerdeConversionError(update)
        ELSE IF ~owner.ok THEN SerdeConversionError(owner)
        ELSE IF ~ballot.ok THEN SerdeConversionError(ballot)
        ELSE IF ~addresses_with_prefix.ok THEN SerdeConversionError(addresses_with_prefix)
        ELSE IF ~oracle_address.ok THEN SerdeConversionError(oracle_address)
        ELSE LET network_prefix == owner.network
             IN  IF /\ oracle_address.network = network_prefix
                    /\ addresses_with_prefix.prefix = network_prefix
                    /\ ballot.network = network_prefix
                    /\ update.network = network_prefix
                    /\ refresh.network = network_prefix
                    /\ oracle.network = network_prefix
                    /\ pool.network = network_prefix
                 THEN [ok |-> TRUE,
                       val |-> [node_port |-> c.node_port,
                                oracle_address |-> c.oracle_address,
                                oracle_contract_parameters |-> oracle.val,
                                pool_contract_parameters |-> pool.val,
                                refresh_contract_parameters |-> refresh.val,
                                update_contract_parameters |-> update.val,
                                ballot_parameters |->
                                    [contract_parameters |-> ballot.val,
                                     vote_parameters |-> c.ballot_parameters.vote_parameters,
                                     ballot_token_owner_address |-> owner.address],
                                token_ids |-> c.token_ids,
                                addresses |-> addresses_with_prefix.addresses]]
                 ELSE NetworkPrefixesDiffer

\* impl TryFrom<OracleConfigSerde> for OracleConfig
OracleConfigTryFrom(c) ==
    LET oracle == OracleContractParametersTryFrom(c.oracle_contract_parameters)
        pool == PoolContractParametersTryFrom(c.pool_contract_parameters)
        refresh == RefreshContractParametersTryFrom(c.refresh_contract_parameters)
        update == UpdateContractParametersTryFrom(c.update_contract_parameters)
        owner == UncheckedParseNetworkAddress(c.ballot_parameters.ballot_token_owner_address)
        ballot == BallotContractParametersTryFrom(c.ballot_parameters.contract_parameters)
        addresses_with_prefix == AddressesWithPrefixTryFrom(c.addresses)
    IN  IF ~oracle.ok THEN SerdeConversionError(oracle)
        ELSE IF ~pool.ok THEN SerdeConversionError(pool)
        ELSE IF ~refresh.ok THEN SerdeConversionError(refresh)
        ELSE IF ~update.ok THEN SerdeConversionError(update)
        ELSE IF ~owner.ok THEN SerdeConversionError(owner)
        ELSE IF ~ballot.ok THEN SerdeConversionError(ballot)
        ELSE IF ~addresses_with_prefix.ok THEN SerdeConversionError(addresses_with_prefix)
        ELSE LET network_prefix == owner.network
             IN  IF /\ addresses_with_prefix.prefix = network_prefix
                    /\ ballot.network = network_prefix
                    /\ update.network = network_prefix
                    /\ refresh.network = network_prefix
                    /\ oracle.network = network_prefix
                    /\ pool.network = network_prefix
                 THEN [ok |-> TRUE,
                       val |-> [node_port |-> c.node_port,
                                oracle_address |-> c.oracle_address,
                                oracle_contract_parameters |-> oracle.val,
                                pool_contract_parameters |-> pool.val,
                                refresh_contract_parameters |-> refresh.val,
                                update_contract_parameters |-> update.val,
                                ballot_parameters |->
                                    [contract_parameters |-> ballot.val,
                                     vote_parameters |-> c.ballot_parameters.vote_parameters,
                                     ballot_token_owner_address |-> owner.address],
                                token_ids |-> c.token_ids,
                                addresses |-> addresses_with_prefix.addresses]]
                 ELSE NetworkPrefixesDiffer

(***************************************************************************)
(* serde.rs: BootstrapConfig                                               *)
(***************************************************************************)
\* impl From<(BootstrapConfig, NetworkPrefix)> for BootstrapConfigSerde
BootstrapConfigSerdeFrom(c, prefix) ==
    [refresh_contract_parameters |->
         RefreshContractParametersSerdeFrom(c.refresh_contract_parameters),
     pool_contract_parameters |-> PoolContractParametersSerdeFrom(c.pool_contract_parameters),
     update_contract_parameters |->
         UpdateContractParametersSerdeFrom(c.update_contract_parameters),
     ballot_contract_parameters |->
         BallotContractParametersSerdeFrom(c.ballot_contract_parameters),
     tokens_to_mint |-> c.tokens_to_mint,
     node_port |-> c.node_port,
     addresses |-> AddressesSerdeFrom(c.addresses, prefix)]

\* impl TryFrom<BootstrapConfigSerde> for BootstrapConfig
BootstrapConfigTryFrom(c) ==
    LET pool == PoolContractParametersTryFrom(c.pool_contract_parameters)
        refresh == RefreshContractParametersTryFrom(c.refresh_contract_parameters)
        update == UpdateContractParametersTryFrom(c.update_contract_parameters)
        ballot == BallotContractParametersTryFrom(c.ballot_contract_parameters)
        awp == AddressesWithPrefixTryFrom(c.addresses)
    IN  IF ~pool.ok THEN SerdeConversionError(pool)
        ELSE IF ~refresh.ok THEN SerdeConversionError(refresh)
        ELSE IF ~update.ok THEN SerdeConversionError(update)
        ELSE IF ~ballot.ok THEN SerdeConversionError(ballot)
        ELSE IF ~awp.ok THEN SerdeConversionError(awp)
        ELSE IF /\ pool.network = awp.prefix
                /\ refresh.network = awp.prefix
                /\ update.network = awp.prefix
                /\ ballot.network = awp.prefix
             THEN [ok |-> TRUE,
                   val |-> [pool_contract_parameters |-> pool.val,
                            refresh_contract_parameters |-> refresh.val,
                            update_contract_parameters |-> update.val,
                            ballot_contract_parameters |-> ballot.val,
                            tokens_to_mint |-> c.tokens_to_mint,
                            node_port |-> c.node_port,
                            addresses |-> awp.addresses]]
             ELSE NetworkPrefixesDiffer

(***************************************************************************)
(* serde.rs: UpdateBootstrapConfig.  An Option is <<>> (None) or <<x>>.    *)
(***************************************************************************)
\* Option::map(|r| r.try_into()).transpose(): None stays None, Some(r) is converted
MapTranspose(opt) == IF opt = <<>> THEN [ok |-> TRUE, some |-> FALSE]
                     ELSE LET r == ParametersTryFrom(opt[1])
                          IN  IF ~r.ok THEN r
                              ELSE [ok |-> TRUE, some |-> TRUE, val |-> r.val,
                                    network |-> r.network]

\* if let Some((_, prefix)) = x { prefixes.push(prefix) }
PushPrefix(prefixes, x) == IF x.some THEN Append(prefixes, x.network) ELSE prefixes

\* x.map(|p| p.0)
MapFirst(x) == IF x.some THEN <<x.val>> ELSE <<>>

\* UpdateBootstrapConfig::try_from comparing each prefix as soon as it is decoded
UpdateBootstrapConfigTryFrom_EagerCheck(c, existing_network_prefix) ==
    LET pool == MapTranspose(c.pool_contract_parameters)
        refresh == MapTranspose(c.refresh_contract_parameters)
        update == MapTranspose(c.update_contract_parameters)
        awp == AddressesWithPrefixTryFrom(c.addresses)
    IN  IF ~pool.ok THEN SerdeConversionError(pool)
        ELSE IF pool.some /\ pool.network # existing_network_prefix THEN NetworkPrefixesDiffer
        ELSE IF ~refresh.ok THEN SerdeConversionError(refresh)
        ELSE IF refresh.some /\ refresh.network # existing_network_prefix
             THEN NetworkPrefixesDiffer
        ELSE IF ~update.ok THEN SerdeConversionError(update)
        ELSE IF update.some /\ update.network # existing_network_prefix
             THEN NetworkPrefixesDiffer
        ELSE IF ~awp.ok THEN SerdeConversionError(awp)
        ELSE IF awp.prefix # existing_network_prefix THEN NetworkPrefixesDiffer
        ELSE [ok |-> TRUE,
              val |-> [pool_contract_parameters |-> MapFirst(pool),
                       refresh_contract_parameters |-> MapFirst(refresh),
                       update_contract_parameters |-> MapFirst(update),
                       tokens_to_mint |-> c.tokens_to_mint,
                       addresses |-> awp.addresses]]

\* UpdateBootstrapConfig::try_from comparing the collected prefixes with the one
\* of the addresses instead of the caller's
UpdateBootstrapConfigTryFrom_SelfDerived(c, existing_network_prefix) ==
    LET pool == MapTranspose(c.pool_contract_parameters)
        refresh == MapTranspose(c.refresh_contract_parameters)
        update == MapTranspose(c.update_contract_parameters)
        awp == AddressesWithPrefixTryFrom(c.addresses)
    IN  IF ~pool.ok THEN SerdeConversionError(pool)
        ELSE IF ~refresh.ok THEN SerdeConversionError(refresh)
        ELSE IF ~update.ok THEN SerdeConversionError(update)
        ELSE IF ~awp.ok THEN SerdeConversionError(awp)
        ELSE LET prefixes == Append(PushPrefix(PushPrefix(PushPrefix(<<>>, pool), refresh),
                                               update), awp.prefix)
             IN  IF \E i \in 1..Len(prefixes) : prefixes[i] # awp.prefix
                 THEN NetworkPrefixesDiffer
                 ELSE [ok |-> TRUE,
                       val |-> [pool_contract_parameters |-> MapFirst(pool),
                                refresh_contract_parameters |-> MapFirst(refresh),
                                update_contract_parameters |-> MapFirst(update),
                                tokens_to_mint |-> c.tokens_to_mint,
                                addresses |-> awp.addresses]]

\* impl TryFrom<(UpdateBootstrapConfigSerde, NetworkPrefix)> for UpdateBootstrapConfig
UpdateBootstrapConfigTryFrom(c, existing_network_prefix) ==
    LET pool == MapTranspose(c.pool_contract_parameters)
        refresh == MapTranspose(c.refresh_contract_parameters)
        update == MapTranspose(c.update_contract_parameters)
        awp == AddressesWithPrefixTryFrom(c.addresses)
    IN  IF ~pool.ok THEN SerdeConversionError(pool)
        ELSE IF ~refresh.ok THEN SerdeConversionError(refresh)
        ELSE IF ~update.ok THEN SerdeConversionError(update)
        ELSE IF ~awp.ok THEN SerdeConversionError(awp)
        ELSE LET prefixes == Append(PushPrefix(PushPrefix(PushPrefix(<<>>, pool), refresh),
                                               update), awp.prefix)
             IN  IF \E i \in 1..Len(prefixes) : prefixes[i] # existing_network_prefix
                 THEN NetworkPrefixesDiffer
                 ELSE [ok |-> TRUE,
                       val |-> [pool_contract_parameters |-> MapFirst(pool),
                                refresh_contract_parameters |-> MapFirst(refresh),
                                update_contract_parameters |-> MapFirst(update),
                                tokens_to_mint |-> c.tokens_to_mint,
                                addresses |-> awp.addresses]]

(***************************************************************************)
(* Inputs of the validators                                                *)
(***************************************************************************)
\* integer fields take values in 0..MaxIndex
MaxIndex == 1

P2S(i) == [tpe |-> 3, body |-> i]

P2Pk(i) == [tpe |-> 1, body |-> i]

\* a malformed string: a well-formed one with its checksum changed
Corrupt(s) == [s EXCEPT ![3] = (s[3] + 1) % 256]

\* the strings tried for a field holding address a
StrChoices(a) == {AddressToStr("Mainnet", a), AddressToStr("Testnet", a),
                  Corrupt(AddressToStr("Mainnet", a))}

WalletChoices(a) == StrChoices(a) \cup {Corrupt(AddressToStr("Testnet", a))}

\* Option<...ParametersSerde>
OptChoices(S) == {<<>>} \cup {<<x>> : x \in S}

OracleParamsSerdes(n) == {[p2s |-> s, pool_nft_index |-> n] : s \in StrChoices(P2S(1))}

PoolParamsSerdes(n) ==
    {[p2s |-> s, refresh_nft_index |-> n, update_nft_index |-> n + 1] : s \in StrChoices(P2S(2))}

RefreshParamsSerdes(n) ==
    {[p2s |-> s, pool_nft_index |-> n, min_data_points |-> n + 2, epoch_length |-> n + 3] :
        s \in StrChoices(P2S(3))}

UpdateParamsSerdes(n) ==
    {[p2s |-> s, pool_nft_index |-> n, min_votes |-> n + 4] : s \in StrChoices(P2S(4))}

BallotParamsSerdes(n) ==
    {[p2s |-> s, min_storage_rent |-> n + 5, update_nft_index |-> n] : s \in StrChoices(P2S(5))}

AddressesSerdes ==
    {[address_for_oracle_tokens |-> o, wallet_address_for_chain_transaction |-> w] :
        o \in StrChoices(P2Pk(7)), w \in WalletChoices(P2Pk(8))}

\* the address strings of a serialized configuration, in decode order
AddressStrings(kind, c) ==
    CASE kind = "oracle" ->
            <<c.oracle_contract_parameters.p2s, c.pool_contract_parameters.p2s,
              c.refresh_contract_parameters.p2s, c.update_contract_parameters.p2s,
              c.ballot_parameters.ballot_token_owner_address,
              c.ballot_parameters.contract_parameters.p2s,
              c.addresses.address_for_oracle_tokens,
              c.addresses.wallet_address_for_chain_transaction>>
      [] kind = "bootstrap" ->
            <<c.pool_contract_parameters.p2s, c.refresh_contract_parameters.p2s,
              c.update_contract_parameters.p2s, c.ballot_contract_parameters.p2s,
              c.addresses.address_for_oracle_tokens,
              c.addresses.wallet_address_for_chain_transaction>>
      [] kind = "update" ->
            (IF c.pool_contract_parameters = <<>> THEN <<>>
             ELSE <<c.pool_contract_parameters[1].p2s>>)
            \o (IF c.refresh_contract_parameters = <<>> THEN <<>>
                ELSE <<c.refresh_contract_parameters[1].p2s>>)
            \o (IF c.update_contract_parameters = <<>> THEN <<>>
                ELSE <<c.update_contract_parameters[1].p2s>>)
            \o <<c.addresses.address_for_oracle_tokens,
                 c.addresses.wallet_address_for_chain_transaction>>

(***************************************************************************)
(* The validators applied to drawn inputs                                  *)
(***************************************************************************)
StateIdle ==
    /\ st_pc = "idle" /\ pool_state = Nothing /\ height = <<0, 0>>
    /\ cfg_epoch_length = <<0, 0, 0, 0>> /\ st_result = Nothing

WatcherIdle ==
    /\ w_pc = "idle" /\ tx_ids = <<>> /\ remaining_txs = <<>> /\ sweep_txs = <<>>
    /\ sweep_i = 0 /\ elapsed = 0 /\ last_lookup = Nothing /\ slept = FALSE
    /\ failed = {}

ConfigIdle ==
    /\ cfg_pc = "idle" /\ cfg_kind = "none" /\ cfg_in = Nothing /\ cfg_prefix = "none"
    /\ cfg_out = Nothing /\ cfg_ser = Nothing /\ cfg_out2 = Nothing

OracleConfigInput ==
    /\ cfg_kind = "oracle"
    /\ cfg_prefix = "none"
    /\ \E n \in 0..MaxIndex, oa \in {AddressToStr(p, P2Pk(9)) : p \in NetworkPrefix} :
       \E o \in OracleParamsSerdes(n), p \in PoolParamsSerdes(n),
          r \in RefreshParamsSerdes(n), u \in UpdateParamsSerdes(n),
          b \in BallotParamsSerdes(n), owner \in StrChoices(P2Pk(6)),
          a \in AddressesSerdes :
            cfg_in = [node_port |-> n,
                      oracle_address |-> oa,
                      oracle_contract_parameters |-> o,
                      pool_contract_parameters |-> p,
                      refresh_contract_parameters |-> r,
                      update_contract_parameters |-> u,
                      ballot_parameters |-> [contract_parameters |-> b,
                                             vote_parameters |-> <<>>,
                                             ballot_token_owner_address |-> owner],
                      token_ids |-> n,
                      addresses |-> a]

BootstrapConfigInput ==
    /\ cfg_kind = "bootstrap"
    /\ cfg_prefix = "none"
    /\ \E n \in 0..MaxIndex :
       \E p \in PoolParamsSerdes(n), r \in RefreshParamsSerdes(n),
          u \in UpdateParamsSerdes(n), b \in BallotParamsSerdes(n), a \in AddressesSerdes :
            cfg_in = [refresh_contract_parameters |-> r,
                      pool_contract_parameters |-> p,
                      update_contract_parameters |-> u,
                      ballot_contract_parameters |-> b,
                      tokens_to_mint |-> n,
                      node_port |-> n,
                      addresses |-> a]

UpdateBootstrapConfigInput ==
    /\ cfg_kind = "update"
    /\ cfg_prefix \in NetworkPrefix
    /\ \E n \in 0..MaxIndex :
       \E p \in OptChoices(PoolParamsSerdes(n)), r \in OptChoices(RefreshParamsSerdes(n)),
          u \in OptChoices(UpdateParamsSerdes(n)), a \in AddressesSerdes :
            cfg_in = [pool_contract_parameters |-> p,
                      refresh_contract_parameters |-> r,
                      update_contract_parameters |-> u,
                      tokens_to_mint |-> n,
                      addresses |-> a]

ConfigInit ==
    /\ cfg_pc = "input"
    /\ cfg_out = Nothing /\ cfg_ser = Nothing /\ cfg_out2 = Nothing
    /\ (OracleConfigInput \/ BootstrapConfigInput \/ UpdateBootstrapConfigInput)
    /\ StateIdle /\ WatcherIdle

\* OracleConfig::try_from(c)
ValidateOracleConfig ==
    /\ cfg_pc = "input" /\ cfg_kind = "oracle"
    /\ cfg_out' = OracleConfigTryFrom(cfg_in)
    /\ cfg_pc' = "validated"
    /\ UNCHANGED <<cfg_kind, cfg_in, cfg_prefix, cfg_ser, cfg_out2, st_vars, w_vars>>

\* BootstrapConfig::try_from(c)
ValidateBootstrapConfig ==
    /\ cfg_pc = "input" /\ cfg_kind = "bootstrap"
    /\ cfg_out' = BootstrapConfigTryFrom(cfg_in)
    /\ cfg_pc' = "validated"
    /\ UNCHANGED <<cfg_kind, cfg_in, cfg_prefix, cfg_ser, cfg_out2, st_vars, w_vars>>

\* UpdateBootstrapConfig::try_from((c, existing_network_prefix))
ValidateUpdateBootstrapConfig ==
    /\ cfg_pc = "input" /\ cfg_kind = "update"
    /\ cfg_out' = UpdateBootstrapConfigTryFrom(cfg_in, cfg_prefix)
    /\ cfg_pc' = "validated"
    /\ UNCHANGED <<cfg_kind, cfg_in, cfg_prefix, cfg_ser, cfg_out2, st_vars, w_vars>>

\* OracleConfigSerde::from((config, prefix)) on a validated configuration
SerializeOracleConfig ==
    /\ cfg_pc = "validated" /\ cfg_kind = "oracle" /\ cfg_out.ok
    /\ \E p \in NetworkPrefix :
        /\ cfg_prefix' = p
        /\ cfg_ser' = OracleConfigSerdeFrom(cfg_out.val, p)
    /\ cfg_pc' = "serialized"
    /\ UNCHANGED <<cfg_kind, cfg_in, cfg_out, cfg_out2, st_vars, w_vars>>

\* BootstrapConfigSerde::from((config, prefix)) on a validated configuration
SerializeBootstrapConfig ==
    /\ cfg_pc = "validated" /\ cfg_kind = "bootstrap" /\ cfg_out.ok
    /\ \E p \in NetworkPrefix :
        /\ cfg_prefix' = p
        /\ cfg_ser' = BootstrapConfigSerdeFrom(cfg_out.val, p)
    /\ cfg_pc' = "serialized"
    /\ UNCHANGED <<cfg_kind, cfg_in, cfg_out, cfg_out2, st_vars, w_vars>>

\* OracleConfig::try_from on the re-serialized form
RevalidateOracleConfig ==
    /\ cfg_pc = "serialized" /\ cfg_kind = "oracle"
    /\ cfg_out2' = OracleConfigTryFrom(cfg_ser)
    /\ cfg_pc' = "revalidated"
    /\ UNCHANGED <<cfg_kind, cfg_in, cfg_prefix, cfg_out, cfg_ser, st_vars, w_vars>>

\* BootstrapConfig::try_from on the re-serialized form
RevalidateBootstrapConfig ==
    /\ cfg_pc = "serialized" /\ cfg_kind = "bootstrap"
    /\ cfg_out2' = BootstrapConfigTryFrom(cfg_ser)
    /\ cfg_pc' = "revalidated"
    /\ UNCHANGED <<cfg_kind, cfg_in, cfg_prefix, cfg_out, cfg_ser, st_vars, w_vars>>

ConfigNext ==
    \/ ValidateOracleConfig
    \/ ValidateBootstrapConfig
    \/ ValidateUpdateBootstrapConfig
    \/ SerializeOracleConfig
    \/ SerializeBootstrapConfig
    \/ RevalidateOracleConfig
    \/ RevalidateBootstrapConfig

SpecConfig == ConfigInit /\ [][ConfigNext]_vars

(***************************************************************************)
(* Claims about the validators                                             *)
(***************************************************************************)
Validated == cfg_pc \in {"validated", "serialized", "revalidated"}

\* each address string of the input decoded on its own
Decoded(kind, c) ==
    [i \in 1..Len(AddressStrings(kind, c)) |->
        UncheckedParseNetworkAddress(AddressStrings(kind, c)[i])]

AllDecode(kind, c) == \A i \in DOMAIN Decoded(kind, c) : Decoded(kind, c)[i].ok

SomeMalformed(kind, c) == \E i \in DOMAIN Decoded(kind, c) : ~Decoded(kind, c)[i].ok

\* the network prefixes of the address strings that decode
DecodedPrefixes(kind, c) ==
    {Decoded(kind, c)[i].network : i \in {j \in DOMAIN Decoded(kind, c) : Decoded(kind, c)[j].ok}}

\* C1: an OracleConfig that validated with all its addresses under prefix P,
\* re-serialized with that same P and validated again, gives Ok with an equal
\* OracleConfig (for P = Mainnet and for P = Testnet).
C1_RoundTripOracleConfig ==
    (/\ cfg_pc = "revalidated" /\ cfg_kind = "oracle"
     /\ cfg_out.ok
     /\ AllDecode("oracle", cfg_in)
     /\ DecodedPrefixes("oracle", cfg_in) = {cfg_prefix})
    => (cfg_out2.ok /\ cfg_out2 = cfg_out)

\* C2: an OracleConfigSerde whose address strings all decode individually but
\* carry two different network prefixes is rejected with NetworkPrefixesDiffer,
\* never accepted and never rejected with another error.
C2_MixedPrefixesGiveNetworkPrefixesDiffer ==
    (/\ Validated /\ cfg_kind = "oracle"
     /\ AllDecode("oracle", cfg_in)
     /\ Cardinality(DecodedPrefixes("oracle", cfg_in)) > 1)
    => cfg_out = NetworkPrefixesDiffer

\* C3: in the three validators, an input holding at least one malformed address
\* string is rejected with the address-decode error, never with
\* NetworkPrefixesDiffer, whatever the other prefixes and whatever its position.
C3_DecodeFailureTakesPrecedence ==
    (Validated /\ SomeMalformed(cfg_kind, cfg_in))
    => (~cfg_out.ok /\ cfg_out.err = "AddressEncoder")

\* C3 witness: an update configuration whose pool parameters decode under a
\* prefix other than the existing one and whose last field (the wallet address)
\* is malformed was rejected with the address-decode error.
C3_Witness ==
    /\ cfg_pc = "validated" /\ cfg_kind = "update"
    /\ cfg_in.pool_contract_parameters # <<>>
    /\ UncheckedParseNetworkAddress(cfg_in.pool_contract_parameters[1].p2s).ok
    /\ UncheckedParseNetworkAddress(cfg_in.pool_contract_parameters[1].p2s).network
         # cfg_prefix
    /\ UncheckedParseNetworkAddress(cfg_in.addresses.address_for_oracle_tokens).ok
    /\ ~UncheckedParseNetworkAddress(cfg_in.addresses.wallet_address_for_chain_transaction).ok
    /\ ~cfg_out.ok /\ cfg_out.err = "AddressEncoder"

\* C4: whenever the OracleConfig or the BootstrapConfig validator returns Ok,
\* every address string of the input decodes and all of them carry one and the
\* same network prefix.
C4_SinglePrefixOnSuccess ==
    (Validated /\ cfg_kind \in {"oracle", "bootstrap"} /\ cfg_out.ok)
    => (/\ AllDecode(cfg_kind, cfg_in)
        /\ Cardinality(DecodedPrefixes(cfg_kind, cfg_in)) = 1)

\* C4 witness: a bootstrap configuration whose addresses are all Testnet was accepted.
C4_Witness ==
    /\ cfg_pc = "validated" /\ cfg_kind = "bootstrap" /\ cfg_out.ok
    /\ DecodedPrefixes("bootstrap", cfg_in) = {"Testnet"}

(***************************************************************************)
(* state.rs: process(pool_state, height)                                   *)
(* PoolState is [tag |-> "NeedsBootstrap"] or                              *)
(* [tag |-> "LiveEpoch", live |-> [epoch_id, latest_pool_box_height,       *)
(*                                 local_datapoint_box_state]],            *)
(* local_datapoint_box_state being <<>> or <<[epoch_id, height]>>.         *)
(*                                                                         *)
(* Unsigned integers keep their width: a u32 is the pair <<hi, lo>> of its *)
(* 16-bit halves and a u64 the tuple of its four 16-bit quarters, most     *)
(* significant first, so that 2^32 and 2^64 wrap where the code's do.      *)
(***************************************************************************)
Base == 2^16

\* u32 from a small number / from the distance to u32::MAX
Low32(n) == <<0, n>>

Top32(n) == <<Base - 1, Base - 1 - n>>

\* u64 from its upper and lower u32
U64(upper, lower) == upper \o lower

\* `x as u32` on a u64: the low 32 bits
AsU32(x) == <<x[3], x[4]>>

\* a < b on u32
Lt32(a, b) == a[1] < b[1] \/ (a[1] = b[1] /\ a[2] < b[2])

\* a - b on u32, wrapped modulo 2^32
WrappingSub(a, b) ==
    LET lo == a[2] - b[2]
        borrow == IF lo < 0 THEN 1 ELSE 0
    IN  <<(a[1] - b[1] - borrow) % Base, lo % Base>>

\* a - b on u32 leaves the range
SubOverflows(a, b) == Lt32(a, b)

\* a + b on u32, wrapped modulo 2^32
WrappingAdd(a, b) ==
    LET lo == a[2] + b[2]
    IN  <<(a[1] + b[1] + (lo \div Base)) % Base, lo % Base>>

\* a + b on u32 leaves the range
AddOverflows(a, b) == a[1] + b[1] + ((a[2] + b[2]) \div Base) >= Base

OkNone == [status |-> "Ok", cmd |-> <<>>]

OkSome(c) == [status |-> "Ok", cmd |-> <<c>>]

Panic == [status |-> "Panic"]

PublishFirstDataPoint == [cmd |-> "PublishFirstDataPoint"]

PublishSubsequentDataPoint(republish) ==
    [cmd |-> "PublishSubsequentDataPoint", republish |-> republish]

Refresh == [cmd |-> "Refresh"]

\* process with the staleness boundary non-strict (<=)
Process_StaleAtBoundary(ps, h, configured_epoch_length, overflow_checks) ==
    IF ps.tag = "NeedsBootstrap" THEN OkNone
    ELSE LET live_epoch == ps.live
             epoch_length == AsU32(configured_epoch_length)
         IN  IF live_epoch.local_datapoint_box_state # <<>>
             THEN LET local == live_epoch.local_datapoint_box_state[1]
                  IN  IF local.epoch_id # live_epoch.epoch_id
                      THEN OkSome(PublishSubsequentDataPoint(FALSE))
                      ELSE IF overflow_checks /\ SubOverflows(h, epoch_length) THEN Panic
                      ELSE IF ~Lt32(WrappingSub(h, epoch_length), local.height)
                      THEN OkSome(PublishSubsequentDataPoint(TRUE))
                      ELSE IF overflow_checks
                              /\ AddOverflows(live_epoch.latest_pool_box_height, epoch_length)
                      THEN Panic
                      ELSE IF ~Lt32(h, WrappingAdd(live_epoch.latest_pool_box_height,
                                                   epoch_length))
                      THEN OkSome(Refresh)
                      ELSE OkNone
             ELSE OkSome(PublishFirstDataPoint)

\* process with the staleness rule tried before the epoch-id rule
Process_StaleBeforeEpochId(ps, h, configured_epoch_length, overflow_checks) ==
    IF ps.tag = "NeedsBootstrap" THEN OkNone
    ELSE LET live_epoch == ps.live
             epoch_length == AsU32(configured_epoch_length)
         IN  IF live_epoch.local_datapoint_box_state # <<>>
             THEN LET local == live_epoch.local_datapoint_box_state[1]
                  IN  IF overflow_checks /\ SubOverflows(h, epoch_length) THEN Panic
                      ELSE IF Lt32(local.height, WrappingSub(h, epoch_length))
                      THEN OkSome(PublishSubsequentDataPoint(TRUE))
                      ELSE IF local.epoch_id # live_epoch.epoch_id
                      THEN OkSome(PublishSubsequentDataPoint(FALSE))
                      ELSE IF overflow_checks
                              /\ AddOverflows(live_epoch.latest_pool_box_height, epoch_length)
                      THEN Panic
                      ELSE IF ~Lt32(h, WrappingAdd(live_epoch.latest_pool_box_height,
                                                   epoch_length))
                      THEN OkSome(Refresh)
                      ELSE OkNone
             ELSE OkSome(PublishFirstDataPoint)

\* process with `height - epoch_length` computed on entry of the LiveEpoch arm,
\* before local_datapoint_box_state is looked at
Process_SubtractionInLiveArm(ps, h, configured_epoch_length, overflow_checks) ==
    IF ps.tag = "NeedsBootstrap" THEN OkNone
    ELSE LET live_epoch == ps.live
             epoch_length == AsU32(configured_epoch_length)
         IN  IF overflow_checks /\ SubOverflows(h, epoch_length) THEN Panic
             ELSE IF live_epoch.local_datapoint_box_state # <<>>
             THEN LET local == live_epoch.local_datapoint_box_state[1]
                  IN  IF local.epoch_id # live_epoch.epoch_id
                      THEN OkSome(PublishSubsequentDataPoint(FALSE))
                      ELSE IF Lt32(local.height, WrappingSub(h, epoch_length))
                      THEN OkSome(PublishSubsequentDataPoint(TRUE))
                      ELSE IF overflow_checks
                              /\ AddOverflows(live_epoch.latest_pool_box_height, epoch_length)
                      THEN Panic
                      ELSE IF ~Lt32(h, WrappingAdd(live_epoch.latest_pool_box_height,
                                                   epoch_length))
                      THEN OkSome(Refresh)
                      ELSE OkNone
             ELSE OkSome(PublishFirstDataPoint)

\* process with `height - epoch_length` computed before the match on pool_state
Process_SubtractionBeforeMatch(ps, h, configured_epoch_length, overflow_checks) ==
    IF overflow_checks /\ SubOverflows(h, AsU32(configured_epoch_length)) THEN Panic
    ELSE IF ps.tag = "NeedsBootstrap" THEN OkNone
    ELSE LET live_epoch == ps.live
             epoch_length == AsU32(configured_epoch_length)
         IN  IF live_epoch.local_datapoint_box_state # <<>>
             THEN LET local == live_epoch.local_datapoint_box_state[1]
                  IN  IF local.epoch_id # live_epoch.epoch_id
                      THEN OkSome(PublishSubsequentDataPoint(FALSE))
                      ELSE IF Lt32(local.height, WrappingSub(h, epoch_length))
                      THEN OkSome(PublishSubsequentDataPoint(TRUE))
                      ELSE IF overflow_checks
                              /\ AddOverflows(live_epoch.latest_pool_box_height, epoch_length)
                      THEN Panic
                      ELSE IF ~Lt32(h, WrappingAdd(live_epoch.latest_pool_box_height,
                                                   epoch_length))
                      THEN OkSome(Refresh)
                      ELSE OkNone
             ELSE OkSome(PublishFirstDataPoint)

\* pub fn process(pool_state, height).  u32 `-` and `+` panic when the build
\* checks overflow (overflow_checks) and wrap modulo 2^32 when it does not.
Process(ps, h, configured_epoch_length, overflow_checks) ==
    IF ps.tag = "NeedsBootstrap" THEN OkNone
    ELSE LET live_epoch == ps.live
             epoch_length == AsU32(configured_epoch_length)
         IN  IF live_epoch.local_datapoint_box_state # <<>>
             THEN LET local == live_epoch.local_datapoint_box_state[1]
                  IN  IF local.epoch_id # live_epoch.epoch_id
                      THEN OkSome(PublishSubsequentDataPoint(FALSE))
                      ELSE IF overflow_checks /\ SubOverflows(h, epoch_length) THEN Panic
                      ELSE IF Lt32(local.height, WrappingSub(h, epoch_length))
                      THEN OkSome(PublishSubsequentDataPoint(TRUE))
                      ELSE IF overflow_checks
                              /\ AddOverflows(live_epoch.latest_pool_box_height, epoch_length)
                      THEN Panic
                      ELSE IF ~Lt32(h, WrappingAdd(live_epoch.latest_pool_box_height,
                                                   epoch_length))
                      THEN OkSome(Refresh)
                      ELSE OkNone
             ELSE OkSome(PublishFirstDataPoint)

(***************************************************************************)
(* Inputs of process                                                       *)
(***************************************************************************)
MaxHeight == 2

MaxEpochLength == 2

MaxEpochId == 1

\* u32 heights: the lowest and the highest ones
Heights == {Low32(n) : n \in 0..MaxHeight} \cup {Top32(n) : n \in 0..MaxHeight}

\* configured epoch lengths (u64 in the parameters): small ones, u32::MAX, 2^32 + 1
EpochLengths == {U64(Low32(0), Low32(n)) : n \in 0..MaxEpochLength}
                \cup {U64(Low32(0), Top32(0)), U64(Low32(1), Low32(1))}

EpochIds == 0..MaxEpochId

LocalDatapointStates == {[epoch_id |-> e, height |-> h] : e \in EpochIds, h \in Heights}

LiveEpochStates ==
    {[epoch_id |-> e, latest_pool_box_height |-> l, local_datapoint_box_state |-> d] :
        e \in EpochIds, l \in Heights, d \in OptChoices(LocalDatapointStates)}

PoolStates == {[tag |-> "NeedsBootstrap"]}
              \cup {[tag |-> "LiveEpoch", live |-> l] : l \in LiveEpochStates}

StateInit ==
    /\ st_pc = "call"
    /\ pool_state \in PoolStates
    /\ height \in Heights
    /\ cfg_epoch_length \in EpochLengths
    /\ st_result = Nothing
    /\ ConfigIdle /\ WatcherIdle

\* one call of process, in a build with or without overflow checks
ProcessCall ==
    /\ st_pc = "call"
    /\ \E overflow_checks \in BOOLEAN :
        st_result' = Process(pool_state, height, cfg_epoch_length, overflow_checks)
    /\ st_pc' = "returned"
    /\ UNCHANGED <<pool_state, height, cfg_epoch_length, cfg_vars, w_vars>>

StateNext == ProcessCall

SpecState == StateInit /\ [][StateNext]_vars

(***************************************************************************)
(* Claims about process.  The claims' arithmetic is exact: numbers are     *)
(* compared as naturals of five 16-bit digits, where no sum of a u32 and a *)
(* u64 wraps.                                                              *)
(***************************************************************************)
Digits == 5

\* a u32 or u64 as a five-digit natural
Nat5(x) == [i \in 1..Digits |-> IF i <= Digits - Len(x) THEN 0 ELSE x[i - (Digits - Len(x))]]

\* the carry into digit i of a + b
RECURSIVE CarryInto(_, _, _)
CarryInto(a, b, i) ==
    IF i = Digits THEN 0 ELSE (a[i + 1] + b[i + 1] + CarryInto(a, b, i + 1)) \div Base

NatAdd(a, b) == [i \in 1..Digits |-> (a[i] + b[i] + CarryInto(a, b, i)) % Base]

NatLt(a, b) == \E i \in 1..Digits : a[i] < b[i] /\ \A j \in 1..(i - 1) : a[j] = b[j]

IsLive == pool_state.tag = "LiveEpoch"

HasLocal == pool_state.live.local_datapoint_box_state # <<>>

Local == pool_state.live.local_datapoint_box_state[1]

\* x < height - e, as local.height + e < height
StaleExactly(x, e) == NatLt(NatAdd(Nat5(x), Nat5(e)), Nat5(height))

\* height >= l + e
RefreshDueExactly(l, e) == ~NatLt(Nat5(height), NatAdd(Nat5(l), Nat5(e)))

\* the decision of section 4.2 under exact integer arithmetic, with the
\* configured epoch length
ExactDecision ==
    IF ~IsLive THEN OkNone
    ELSE IF ~HasLocal THEN OkSome(PublishFirstDataPoint)
    ELSE IF Local.epoch_id # pool_state.live.epoch_id
         THEN OkSome(PublishSubsequentDataPoint(FALSE))
    ELSE IF StaleExactly(Local.height, cfg_epoch_length)
         THEN OkSome(PublishSubsequentDataPoint(TRUE))
    ELSE IF RefreshDueExactly(pool_state.live.latest_pool_box_height, cfg_epoch_length)
         THEN OkSome(Refresh)
    ELSE OkNone

\* C5: process returns Ok for every pool state, height and epoch length, without
\* panicking, and underflow, overflow or truncation never change the result of
\* its comparisons.
C5_ProcessNeverFails ==
    st_pc = "returned" => (st_result.status = "Ok" /\ st_result = ExactDecision)

\* C6: with no local datapoint, process returns Some(PublishFirstDataPoint) for
\* every height, latest_pool_box_height, epoch_id and epoch_length.
C6_NoLocalPublishesFirst ==
    (st_pc = "returned" /\ IsLive /\ ~HasLocal)
    => st_result = OkSome(PublishFirstDataPoint)

\* C6 witness: a call without local datapoint returned, at a height below the
\* epoch length and with latest_pool_box_height + epoch_length beyond u32.
C6_Witness ==
    /\ st_pc = "returned" /\ IsLive /\ ~HasLocal
    /\ NatLt(Nat5(height), Nat5(AsU32(cfg_epoch_length)))
    /\ NatLt(Nat5(Top32(0)), NatAdd(Nat5(pool_state.live.latest_pool_box_height),
                                    Nat5(AsU32(cfg_epoch_length))))
    /\ st_result = OkSome(PublishFirstDataPoint)

\* C7: with a local datapoint of another epoch, process returns
\* Some(PublishSubsequentDataPoint{republish: false}) for every height,
\* local.height and latest_pool_box_height, also when the staleness rule and the
\* refresh rule would match.
C7_OtherEpochPublishesSubsequent ==
    (st_pc = "returned" /\ IsLive /\ HasLocal /\ Local.epoch_id # pool_state.live.epoch_id)
    => st_result = OkSome(PublishSubsequentDataPoint(FALSE))

\* C7 witness: a call with a local datapoint of another epoch that is also stale,
\* with a refresh due, returned republish: false.
C7_Witness ==
    /\ st_pc = "returned" /\ IsLive /\ HasLocal
    /\ Local.epoch_id # pool_state.live.epoch_id
    /\ StaleExactly(Local.height, cfg_epoch_length)
    /\ RefreshDueExactly(pool_state.live.latest_pool_box_height, cfg_epoch_length)
    /\ st_result = OkSome(PublishSubsequentDataPoint(FALSE))

\* the case C8 is about: a local datapoint of the current epoch, height >=
\* epoch_length and latest_pool_box_height + epoch_length within u32, where
\* epoch_length is the u32 value process uses
C8_Case ==
    /\ st_pc = "returned" /\ IsLive /\ HasLocal
    /\ Local.epoch_id = pool_state.live.epoch_id
    /\ ~NatLt(Nat5(height), Nat5(AsU32(cfg_epoch_length)))
    /\ ~NatLt(Nat5(Top32(0)), NatAdd(Nat5(pool_state.live.latest_pool_box_height),
                                     Nat5(AsU32(cfg_epoch_length))))

\* C8: in that case the result is republish: true exactly when local.height <
\* height - epoch_length; otherwise Refresh exactly when height >=
\* latest_pool_box_height + epoch_length; otherwise None.
C8_SameEpochDecision ==
    C8_Case
    => st_result =
         IF StaleExactly(Local.height, AsU32(cfg_epoch_length))
         THEN OkSome(PublishSubsequentDataPoint(TRUE))
         ELSE IF RefreshDueExactly(pool_state.live.latest_pool_box_height,
                                   AsU32(cfg_epoch_length))
         THEN OkSome(Refresh)
         ELSE OkNone

\* C8 witness: both boundaries at once: local.height = height - epoch_length (not
\* stale) and height = latest_pool_box_height + epoch_length (refresh).
C8_Witness ==
    /\ C8_Case
    /\ AsU32(cfg_epoch_length) # Low32(0)
    /\ NatAdd(Nat5(Local.height), Nat5(AsU32(cfg_epoch_length))) = Nat5(height)
    /\ NatAdd(Nat5(pool_state.live.latest_pool_box_height), Nat5(AsU32(cfg_epoch_length)))
         = Nat5(height)
    /\ st_result = OkSome(Refresh)

\* C9: process(NeedsBootstrap, height) returns Ok(None) for every height and
\* every epoch length; the height takes no part in it.
C9_NeedsBootstrapReturnsNone ==
    (st_pc = "returned" /\ ~IsLive) => st_result = OkNone

\* C9 witness: a NeedsBootstrap call returned at a height below the epoch length.
C9_Witness ==
    /\ st_pc = "returned" /\ ~IsLive
    /\ NatLt(Nat5(height), Nat5(AsU32(cfg_epoch_length)))
    /\ st_result = OkNone

(***************************************************************************)
(* explorer_api.rs: wait_for_txs_confirmation(tx_ids)                      *)
(* w_pc: "loop"  at the head of `loop`, about to clone remaining_txs       *)
(*       "sweep" inside the `for`, about to look up sweep_txs[sweep_i]     *)
(*       "check" after the `for`                                           *)
(*       "done"  returned; "aborted" the assert_eq! panicked               *)
(* Time is counted in seconds since start_time; it passes in lookups and   *)
(* in the sleep.                                                           *)
(***************************************************************************)
\* match network { Mainnet => ExplorerApi::new(..), Testnet => ExplorerApi::new(..) }
ExplorerApiUrl(network) ==
    IF network = "Mainnet" THEN "https://api.ergoplatform.com/api/v1/"
    ELSE "https://api-testnet.ergoplatform.com/api/v1/"

\* let timeout = Duration::from_secs(600)
Timeout == 600

\* std::thread::sleep(Duration::from_secs(10))
SleepSecs == 10

\* tx_ids holds at most MaxTxs identifiers
MaxTxs == 3

\* a lookup returns after 0..MaxLookupTicks times 10 seconds
MaxLookupTicks == 1

TxIdSet == {"tx1", "tx2"}

TxIdVecs == UNION {[1..n -> TxIdSet] : n \in 0..MaxTxs}

LookupSecs == {10 * k : k \in 0..MaxLookupTicks}

WatcherInit ==
    /\ w_pc = "loop"
    /\ tx_ids \in TxIdVecs
    /\ remaining_txs = tx_ids
    /\ sweep_txs = <<>>
    /\ sweep_i = 0
    /\ elapsed = 0
    /\ last_lookup = Nothing
    /\ slept = FALSE
    /\ failed = {}
    /\ ConfigIdle /\ StateIdle

\* remaining_txs.retain(|id| *id != tx_id)
Retain(txs, tx_id) == LET Keep(id) == id # tx_id IN SelectSeq(txs, Keep)

\* start_time.elapsed() >= timeout: the ceiling itself taken as a timeout
TimedOut_AtCeiling == elapsed >= Timeout

\* start_time.elapsed() > timeout
TimedOut == elapsed > Timeout

\* the sweep taken over tx_ids instead of over remaining_txs
BeginSweep_OverRequested ==
    /\ w_pc = "loop"
    /\ sweep_txs' = tx_ids
    /\ sweep_i' = 1
    /\ failed' = {}
    /\ w_pc' = IF tx_ids = <<>> THEN "check" ELSE "sweep"
    /\ UNCHANGED <<tx_ids, remaining_txs, elapsed, last_lookup, slept, cfg_vars, st_vars>>

\* for tx_id in remaining_txs.clone()
BeginSweep ==
    /\ w_pc = "loop"
    /\ sweep_txs' = remaining_txs
    /\ sweep_i' = 1
    /\ w_pc' = IF remaining_txs = <<>> THEN "check" ELSE "sweep"
    /\ failed' = {}
    /\ UNCHANGED <<tx_ids, remaining_txs, elapsed, last_lookup, slept, cfg_vars, st_vars>>

\* the `for` moves to its next element, or ends
NextInSweep ==
    /\ sweep_i' = sweep_i + 1
    /\ w_pc' = IF sweep_i = Len(sweep_txs) THEN "check" ELSE "sweep"

\* get_transaction(tx_id) returns Err: nothing else happens
LookupFails ==
    /\ w_pc = "sweep"
    /\ \E d \in LookupSecs : elapsed' = elapsed + d
    /\ last_lookup' = [tx_id |-> sweep_txs[sweep_i], outcome |-> "Err"]
    /\ NextInSweep
    /\ failed' = failed \cup {sweep_txs[sweep_i]}
    /\ UNCHANGED <<tx_ids, remaining_txs, sweep_txs, slept, cfg_vars, st_vars>>

\* get_transaction(tx_id) returns Ok(tx) with tx.id() == tx_id
LookupConfirms ==
    /\ w_pc = "sweep"
    /\ \E d \in LookupSecs : elapsed' = elapsed + d
    /\ last_lookup' = [tx_id |-> sweep_txs[sweep_i], outcome |-> "Ok"]
    /\ remaining_txs' = Retain(remaining_txs, sweep_txs[sweep_i])
    /\ NextInSweep
    /\ UNCHANGED <<tx_ids, sweep_txs, slept, failed, cfg_vars, st_vars>>

\* the id comparison made a condition of the removal instead of an assertion: a
\* transaction with another id counts as not yet confirmed
LookupMismatch_Tolerated ==
    /\ w_pc = "sweep"
    /\ \E d \in LookupSecs : elapsed' = elapsed + d
    /\ last_lookup' = [tx_id |-> sweep_txs[sweep_i], outcome |-> "Mismatch"]
    /\ NextInSweep
    /\ UNCHANGED <<tx_ids, remaining_txs, sweep_txs, slept, failed, cfg_vars, st_vars>>

\* get_transaction(tx_id) returns Ok(tx) with another id: assert_eq! panics
LookupMismatch ==
    /\ w_pc = "sweep"
    /\ \E d \in LookupSecs : elapsed' = elapsed + d
    /\ last_lookup' = [tx_id |-> sweep_txs[sweep_i], outcome |-> "Mismatch"]
    /\ w_pc' = "aborted"
    /\ UNCHANGED <<tx_ids, remaining_txs, sweep_txs, sweep_i, slept, failed, cfg_vars, st_vars>>

\* if remaining_txs.is_empty() { break }
ExitEmpty ==
    /\ w_pc = "check"
    /\ remaining_txs = <<>>
    /\ w_pc' = "done"
    /\ UNCHANGED <<tx_ids, remaining_txs, sweep_txs, sweep_i, elapsed, last_lookup,
                   slept, failed, cfg_vars, st_vars>>

\* if start_time.elapsed() > timeout { break }
ExitTimeout ==
    /\ w_pc = "check"
    /\ remaining_txs # <<>>
    /\ TimedOut
    /\ w_pc' = "done"
    /\ UNCHANGED <<tx_ids, remaining_txs, sweep_txs, sweep_i, elapsed, last_lookup,
                   slept, failed, cfg_vars, st_vars>>

\* the sleep taken before the emptiness of remaining_txs is looked at
Sleep_EvenWhenEmpty ==
    /\ w_pc = "check"
    /\ ~TimedOut
    /\ elapsed' = elapsed + SleepSecs
    /\ slept' = TRUE
    /\ w_pc' = "loop"
    /\ UNCHANGED <<tx_ids, remaining_txs, sweep_txs, sweep_i, last_lookup, failed,
                   cfg_vars, st_vars>>

\* std::thread::sleep(10 s), then the next iteration of `loop`
Sleep ==
    /\ w_pc = "check"
    /\ remaining_txs # <<>>
    /\ ~TimedOut
    /\ elapsed' = elapsed + SleepSecs
    /\ slept' = TRUE
    /\ w_pc' = "loop"
    /\ UNCHANGED <<tx_ids, remaining_txs, sweep_txs, sweep_i, last_lookup, failed,
                   cfg_vars, st_vars>>

WatcherNext ==
    \/ BeginSweep
    \/ LookupFails
    \/ LookupConfirms
    \/ LookupMismatch
    \/ ExitEmpty
    \/ ExitTimeout
    \/ Sleep

SpecWatcher == WatcherInit /\ [][WatcherNext]_vars

\* the calling thread keeps running: every lookup returns and the sleep ends
FairSpecWatcher == SpecWatcher /\ WF_vars(WatcherNext)

(***************************************************************************)
(* Claims about wait_for_txs_confirmation                                  *)
(***************************************************************************)
\* every lookup so far failed or returned the requested id
NoMismatch == last_lookup = Nothing \/ last_lookup.outcome # "Mismatch"

\* C10: with an indexer whose lookups fail or return the requested id, the call
\* returns normally; it returns at the end of the first sweep after which the
\* pending set is empty or more than 600 seconds have elapsed, and only then;
\* consecutive sweeps are separated by exactly one 10-second sleep; nothing but
\* an id mismatch makes it panic.
C10_WatcherReturns ==
    /\ ([]NoMismatch) => <>(w_pc = "done")
    /\ [][w_pc' = "done" =>
            (w_pc = "check" /\ (remaining_txs = <<>> \/ elapsed > Timeout))]_vars
    /\ [][(w_pc = "check" /\ (remaining_txs = <<>> \/ elapsed > Timeout)) =>
            w_pc' = "done"]_vars
    /\ [][w_pc' = "loop" => (w_pc = "check" /\ elapsed' = elapsed + SleepSecs)]_vars
    /\ [][w_pc = "loop" => (w_pc' \in {"sweep", "check"} /\ elapsed' = elapsed)]_vars
    /\ [][w_pc' = "aborted" => last_lookup'.outcome = "Mismatch"]_vars

\* C10 witness: the call returned with an identifier still pending, more than
\* 600 seconds after it began, every lookup having failed.
C10_Witness ==
    /\ w_pc = "done"
    /\ remaining_txs = tx_ids /\ tx_ids # <<>>
    /\ elapsed > Timeout
    /\ last_lookup.outcome = "Err"

\* C11: a sweep that ends with the pending set empty is followed by the return
\* and by nothing else: no sleep, no lookup, no passing of time, also when more
\* than 600 seconds have elapsed; the call is over once it has returned; and a
\* call whose first sweep confirmed everything returns without having slept.
C11_ReturnsWithoutSleepWhenEmpty ==
    /\ [][(w_pc = "check" /\ remaining_txs = <<>>) =>
            (/\ w_pc' = "done" /\ slept' = slept /\ elapsed' = elapsed
             /\ last_lookup' = last_lookup)]_vars
    /\ [][w_pc = "done" => UNCHANGED vars]_vars
    /\ [][slept' # slept => (w_pc = "check" /\ remaining_txs # <<>>)]_vars
    /\ [](w_pc \in {"sweep", "check"} /\ ~slept => elapsed <= 10 * MaxLookupTicks * Len(tx_ids))

\* C11 witness: two identifiers, both confirmed in the first sweep, which lasted
\* some time; the call returned without having slept.
C11_Witness ==
    /\ w_pc = "done" /\ ~slept
    /\ Len(tx_ids) = 2 /\ tx_ids[1] # tx_ids[2]
    /\ remaining_txs = <<>>
    /\ elapsed > 0

\* the elements of a sequence
Range(seq) == {seq[i] : i \in 1..Len(seq)}

\* this step is the lookup of tx_id in the sweep, with the given outcome
LookupStep(tx_id, outcome) ==
    /\ w_pc = "sweep"
    /\ sweep_txs[sweep_i] = tx_id
    /\ (sweep_i' # sweep_i \/ w_pc' # w_pc)
    /\ last_lookup' = [tx_id |-> tx_id, outcome |-> outcome]

\* this step begins a sweep
SweepBegins == w_pc = "loop" /\ w_pc' # "loop"

\* C13: a lookup that succeeds with another id aborts the call at that lookup:
\* the pending set is left as it was (the id stays in it if it was there), the
\* rest of the sweep is not looked up, and from then on nothing happens: no
\* lookup, no sleep, no return. A call that returned saw no mismatch.
C13_MismatchIsFatal ==
    /\ [][\A x \in TxIdSet : LookupStep(x, "Mismatch") =>
            (/\ w_pc' = "aborted"
             /\ remaining_txs' = remaining_txs
             /\ sweep_i' = sweep_i)]_vars
    /\ [][w_pc = "aborted" => UNCHANGED vars]_vars
    /\ [](w_pc = "aborted" <=> ~NoMismatch)
    /\ [](w_pc = "done" => NoMismatch)

\* C13 witness: one identifier was confirmed and removed, then the lookup of
\* another returned a different id; the call aborted with that identifier still
\* pending and with an identifier of the sweep not yet looked up.
C13_Witness ==
    /\ w_pc = "aborted"
    /\ last_lookup.outcome = "Mismatch"
    /\ last_lookup.tx_id \in Range(remaining_txs)
    /\ Len(remaining_txs) < Len(tx_ids)
    /\ sweep_i < Len(sweep_txs)

\* C14 as stated, the retry clause: every identifier whose lookup failed in a
\* sweep is looked up in the next sweep.
C14_FailedLookupRetriedInNextSweep ==
    [][SweepBegins => failed \subseteq Range(sweep_txs')]_vars

\* C14 as amended: the pending set holds requested identifiers only and never
\* grows; an identifier leaves it exactly at a lookup of it that returned the
\* same id; a failed lookup leaves it unchanged and the call goes on; a sweep
\* looks up exactly the identifiers pending when it begins, so an identifier
\* whose lookup failed is looked up in the next sweep if it is still pending
\* then, and a removed identifier is in no later sweep.
C14_PendingSetDiscipline ==
    /\ [](Range(remaining_txs) \subseteq Range(tx_ids))
    /\ [][/\ Range(remaining_txs') \subseteq Range(remaining_txs)
          /\ Len(remaining_txs') <= Len(remaining_txs)
          /\ tx_ids' = tx_ids]_vars
    /\ [][\A x \in TxIdSet :
            (x \in Range(remaining_txs) /\ x \notin Range(remaining_txs'))
              <=> (x \in Range(remaining_txs) /\ LookupStep(x, "Ok"))]_vars
    /\ [][\A x \in TxIdSet : LookupStep(x, "Err") =>
            (remaining_txs' = remaining_txs /\ w_pc' \in {"sweep", "check"})]_vars
    /\ [][SweepBegins => sweep_txs' = remaining_txs]_vars
    /\ [][SweepBegins => (failed \cap Range(remaining_txs)) \subseteq Range(sweep_txs')]_vars
    /\ [][w_pc = "sweep" => (w_pc' = "aborted" \/ sweep_i' = sweep_i + 1)]_vars
    /\ [](w_pc = "check" => sweep_i = Len(sweep_txs) + 1)

\* C14 witness: a sweep begins in which tx2, whose lookup failed at the end of
\* the sweep before, is looked up again, and tx1, removed earlier, is not.
C14_Witness ==
    /\ w_pc = "sweep" /\ slept
    /\ last_lookup = [tx_id |-> "tx2", outcome |-> "Err"]
    /\ tx_ids = <<"tx1", "tx2">>
    /\ sweep_txs = <<"tx2">>
    /\ remaining_txs = <<"tx2">>
    /\ sweep_i = 1

(***************************************************************************)
(* Claims about UpdateBootstrapConfig and about oracle_address             *)
(***************************************************************************)
UpdateValidated == cfg_pc = "validated" /\ cfg_kind = "update"

\* C12: UpdateBootstrapConfig validation measures every present field against
\* the caller-supplied prefix: it returns Ok exactly when every address string
\* that is present decodes under that prefix, absent parameter sets are None in
\* the result and never make it fail, and present fields that agree with one
\* another on another prefix are rejected with NetworkPrefixesDiffer.
C12_UpdateUsesSuppliedPrefix ==
    UpdateValidated =>
        /\ cfg_out.ok <=> (/\ AllDecode("update", cfg_in)
                           /\ DecodedPrefixes("update", cfg_in) = {cfg_prefix})
        /\ cfg_out.ok =>
             /\ (cfg_out.val.pool_contract_parameters = <<>>)
                  <=> (cfg_in.pool_contract_parameters = <<>>)
             /\ (cfg_out.val.refresh_contract_parameters = <<>>)
                  <=> (cfg_in.refresh_contract_parameters = <<>>)
             /\ (cfg_out.val.update_contract_parameters = <<>>)
                  <=> (cfg_in.update_contract_parameters = <<>>)
        /\ (/\ AllDecode("update", cfg_in)
            /\ Cardinality(DecodedPrefixes("update", cfg_in)) = 1
            /\ DecodedPrefixes("update", cfg_in) # {cfg_prefix})
           => cfg_out = NetworkPrefixesDiffer

\* C12 witness: pool parameters absent, update parameters present, every present
\* address Testnet, the supplied prefix Mainnet: rejected with NetworkPrefixesDiffer.
C12_Witness ==
    /\ UpdateValidated
    /\ cfg_prefix = "Mainnet"
    /\ cfg_in.pool_contract_parameters = <<>>
    /\ cfg_in.update_contract_parameters # <<>>
    /\ AllDecode("update", cfg_in)
    /\ DecodedPrefixes("update", cfg_in) = {"Testnet"}
    /\ cfg_out = NetworkPrefixesDiffer

\* the strings tried in place of oracle_address: well-formed of either network,
\* malformed, and a script address
OracleAddressStrings ==
    {AddressToStr(p, P2Pk(9)) : p \in NetworkPrefix}
        \cup {Corrupt(AddressToStr("Mainnet", P2Pk(9))), AddressToStr("Testnet", P2S(3))}

\* C15: OracleConfig validation does not look at oracle_address: the string is
\* copied to the result as it is, and the same input with any other
\* oracle_address, malformed or of another network, gives the same error or an
\* Ok result equal in every other field.
C15_OracleAddressNotValidated ==
    (cfg_pc = "validated" /\ cfg_kind = "oracle") =>
        \A oa \in OracleAddressStrings :
            LET other == OracleConfigTryFrom([cfg_in EXCEPT !.oracle_address = oa])
            IN  /\ other.ok = cfg_out.ok
                /\ ~cfg_out.ok => other = cfg_out
                /\ cfg_out.ok =>
                     /\ cfg_out.val.oracle_address = cfg_in.oracle_address
                     /\ other.val.oracle_address = oa
                     /\ [other.val EXCEPT !.oracle_address = cfg_in.oracle_address]
                          = cfg_out.val

\* C15 witness: an input whose validated addresses are all Mainnet and whose
\* oracle_address is Testnet validated Ok; the endpoint chosen from the network
\* of oracle_address is the testnet one.
C15_Witness ==
    /\ cfg_pc = "validated" /\ cfg_kind = "oracle"
    /\ cfg_out.ok
    /\ DecodedPrefixes("oracle", cfg_in) = {"Mainnet"}
    /\ cfg_out.val.oracle_address = AddressToStr("Testnet", P2Pk(9))
    /\ ExplorerApiUrl(UncheckedParseNetworkAddress(cfg_out.val.oracle_address).network)
         # ExplorerApiUrl("Mainnet")

====
